---- MODULE Spec2Model ----
(***************************************************************************)
(* The signaling relay of src/video_file_demo/main.py: ConnectionManager   *)
(* (the registry active_connections and its operations) and the coroutine  *)
(* websocket_endpoint, one task per accepted connection, run by a single   *)
(* asyncio event loop.  A task runs without interruption from one await    *)
(* at which it suspends to the next, so one action of this model is one    *)
(* such run: everything the code does between two suspension points.      *)
(*                                                                         *)
(* The tasks suspend in websocket.receive_text() and in                    *)
(* websocket.send_json() (until the transport accepts the write).  A send  *)
(* on a transport that is already closed raises at the call, without a    *)
(* suspension.  Tasks suspended in a send on the same connection are       *)
(* resumed in the order of their calls (asyncio wakes waiters first in,    *)
(* first out).                                                             *)
(*                                                                         *)
(* active_connections is a Python dict.  Its entries are kept in an array  *)
(* in insertion order; del leaves a hole, a new key is appended, an        *)
(* existing key is overwritten in place.  The array is only rebuilt when   *)
(* its free slots run out, which for a dict created as {} takes more than  *)
(* five insertions of new keys, so NSess stays at or below five.  A        *)
(* dict iterator keeps a position in that array, the dict's size when it   *)
(* was created and the number of values it still expects.                  *)
(***************************************************************************)
EXTENDS Naturals, Sequences, FiniteSets

\* Number of websocket objects (1..NSess, numbered in the order their
\* handshakes complete).
NSess == 3

\* Number of connections the server accepts under Spec; SpecWide accepts NSess.
MaxConn == 2

\* Number of inbound texts the sessions receive in total.
MaxMsgs == 1

Sessions == 1 .. NSess

\* Client IDs that connect (the path parameter client_id).
Ids == {"A", "B"}

FirstId == "A"

\* A client ID that never connects.
UnknownId == "Z"

\* A key a dict does not hold (message.get returns None).
Absent == "-"

\* A stalled transport is open but never accepts a write.
TransportStates == {"open", "stalled", "closed"}

Terminal == {"closed", "crashed"}

VARIABLES
    active_connections, \* ConnectionManager.active_connections: the entry array
    task,               \* per websocket: the locals and position of its websocket_endpoint
    tr,                 \* per websocket: the state of its transport
    waitq,              \* per websocket: the tasks suspended in a send_json on it, in call order
    out,                \* per websocket: the messages its transport accepted, in order,
                        \* each with the websocket of the task that sent it (via)
    nmsgs,              \* inbound texts received so far
    received,           \* the text whose handling led to this state, with its websocket
    bseq,               \* membership snapshots computed so far
    lastop              \* per client ID: the last call made for it, connect
                        \* ("register") or disconnect ("unregister")

vars == <<active_connections, task, tr, waitq, out, nmsgs, received, bseq, lastop>>

-----------------------------------------------------------------------------
(* The dict active_connections *)

\* A deleted entry of the array.
Tomb == [id |-> "", ws |-> 0]

Live(reg) == {i \in 1 .. Len(reg) : reg[i] # Tomb}

\* len(d)
Used(reg) == Cardinality(Live(reg))

\* key in d
Contains(reg, id) == \E i \in Live(reg) : reg[i].id = id

IndexOf(reg, id) == CHOOSE i \in Live(reg) : reg[i].id = id

\* d[key]
Lookup(reg, id) == reg[IndexOf(reg, id)].ws

\* d.setdefault(key, value): an existing entry keeps its value.
SetItem_KeepFirst(reg, id, ws) ==
    IF Contains(reg, id)
    THEN reg
    ELSE Append(reg, [id |-> id, ws |-> ws])

\* d[key] = value
SetItem(reg, id, ws) ==
    IF Contains(reg, id)
    THEN [reg EXCEPT ![IndexOf(reg, id)].ws = ws]
    ELSE Append(reg, [id |-> id, ws |-> ws])

\* del d[key]
DelItem(reg, id) == [reg EXCEPT ![IndexOf(reg, id)] = Tomb]

IsLive(e) == e # Tomb

\* list(d.keys())
Keys(reg) ==
    LET live == SelectSeq(reg, IsLive)
    IN  [i \in 1 .. Len(live) |-> live[i].id]

\* The websockets d.values() holds.
Values(reg) == {reg[i].ws : i \in Live(reg)}

\* iter(d.values())
NewIter(reg) == [pos |-> 0, used |-> Used(reg), len |-> Used(reg)]

\* next(it): "error" is RuntimeError (the dict changed size, or a value turns
\* up after all expected ones were yielded), "stop" is StopIteration.
IterNext(reg, it) ==
    LET rest == {i \in Live(reg) : i > it.pos}
        i == CHOOSE j \in rest : \A k \in rest : j <= k
    IN  IF it.used # Used(reg)
        THEN [res |-> "error", ws |-> 0, it |-> it]
        ELSE IF rest = {}
        THEN [res |-> "stop", ws |-> 0, it |-> it]
        ELSE IF it.len = 0
        THEN [res |-> "error", ws |-> 0, it |-> it]
        ELSE [res |-> "value", ws |-> reg[i].ws,
              it |-> [pos |-> i, used |-> it.used, len |-> it.len - 1]]

-----------------------------------------------------------------------------
(* Messages *)

\* What receive_text() returns: a text that json.loads rejects, one that
\* decodes to something without .get (a list, a number), or a JSON object.
\* The payload of the n-th text the server receives is n.
Inbound(n) ==
    [kind : {"malformed", "nonobject"}, target : {Absent}, from : {Absent},
     payload : {n}]
    \cup [kind : {"object"}, target : Ids \cup {UnknownId, Absent, ""},
          from : Ids \cup {Absent}, payload : {n}]

\* No text: the step that led here was not the handling of one.
NoText ==
    [ws |-> 0,
     text |-> [kind |-> Absent, target |-> Absent, from |-> Absent, payload |-> 0]]

NoMessage == [type |-> Absent, from |-> Absent, target |-> Absent,
              payload |-> 0, data |-> <<>>, seq |-> 0]

\* Stamp keeping a from the sender supplied (message.setdefault).
Stamp_KeepFrom(m, client_id) ==
    [type |-> "msg", from |-> IF m.from = Absent THEN client_id ELSE m.from,
     target |-> m.target, payload |-> m.payload, data |-> <<>>, seq |-> 0]

\* message["from"] = client_id
Stamp(m, client_id) ==
    [type |-> "msg", from |-> client_id, target |-> m.target,
     payload |-> m.payload, data |-> <<>>, seq |-> 0]

\* {"type": "users", "data": user_list}; seq numbers the snapshot.
UsersMessage(user_list, seq) ==
    [type |-> "users", from |-> Absent, target |-> Absent,
     payload |-> 0, data |-> user_list, seq |-> seq]

-----------------------------------------------------------------------------
(* The locals of one websocket_endpoint task *)

NoIter == [pos |-> 0, used |-> 0, len |-> 0]

\* pc: "init" before the handshake, "bcast" suspended in the send_json of
\* broadcast_user_list, "recv" suspended in receive_text, "send" suspended in
\* the send_json of send_personal_message, "closed" returned, "crashed" left
\* by an exception nothing caught.  cur is the websocket of the pending send,
\* kind the caller of the running broadcast, seq the number of its snapshot,
\* log the membership messages this task has built so far.
IdleTask ==
    [pc |-> "init", client_id |-> Absent, cur |-> 0, message |-> NoMessage,
     user_list |-> <<>>, kind |-> Absent, it |-> NoIter, seq |-> 0, log |-> <<>>]

\* The task at pc with the locals of the call it has left dropped.
At(t, pc) ==
    [t EXCEPT !.pc = pc, !.cur = 0, !.message = NoMessage, !.user_list = <<>>,
              !.kind = Absent, !.it = NoIter, !.seq = 0]

\* for connection in self.active_connections.values(): await connection.send_json(message)
\* from the loop's next() to the next suspension.  An exception (of next, or
\* of a send on a closed transport) leaves broadcast_user_list and, raised
\* in connect (outside the try) or in an except clause, the endpoint too.
ForEachSend(reg, trs, t) ==
    LET r == IterNext(reg, t.it)
    IN  IF r.res = "value"
        THEN IF trs[r.ws] = "closed"
             THEN At(t, "crashed")
             ELSE [t EXCEPT !.pc = "bcast", !.cur = r.ws, !.it = r.it]
        ELSE IF r.res = "stop"
        THEN At(t, IF t.kind = "connect" THEN "recv" ELSE "closed")
        ELSE At(t, "crashed")

\* ConnectionManager.broadcast_user_list, up to its first suspension.
broadcast_user_list(reg, trs, t, kind, n) ==
    ForEachSend(reg, trs,
        [t EXCEPT !.user_list = Keys(reg), !.kind = kind, !.it = NewIter(reg),
                  !.seq = n,
                  !.log = Append(@, [kind |-> kind, data |-> Keys(reg), seq |-> n])])

\* disconnect that finds the entry and leaves it where it is.
disconnect_KeepsEntry(reg, client_id) ==
    reg

\* disconnect that removes the oldest entry when the ID is not registered.
disconnect_DropsOldest(reg, client_id) ==
    IF Contains(reg, client_id)
    THEN DelItem(reg, client_id)
    ELSE IF Live(reg) # {}
    THEN [reg EXCEPT ![CHOOSE i \in Live(reg) : \A j \in Live(reg) : i <= j] = Tomb]
    ELSE reg

\* ConnectionManager.disconnect
disconnect(reg, client_id) ==
    IF Contains(reg, client_id) THEN DelItem(reg, client_id) ELSE reg

\* connect with the membership broadcast started before the registration.
connect_BroadcastFirst(reg, trs, t, ws, client_id, n) ==
    [reg |-> SetItem(reg, client_id, ws),
     task |-> broadcast_user_list(reg, trs, [t EXCEPT !.client_id = client_id],
                                  "connect", n)]

\* ConnectionManager.connect, after accept()
connect(reg, trs, t, ws, client_id, n) ==
    LET reg2 == SetItem(reg, client_id, ws)
    IN  [reg |-> reg2,
         task |-> broadcast_user_list(reg2, trs, [t EXCEPT !.client_id = client_id],
                                      "connect", n)]

\* HandleException with the membership message built before the removal.
HandleException_BroadcastFirst(reg, trs, t, n) ==
    [reg |-> IF Contains(reg, t.client_id) THEN DelItem(reg, t.client_id) ELSE reg,
     task |-> broadcast_user_list(reg, trs, At(t, "recv"), "disconnect", n)]

\* The two except clauses of websocket_endpoint: disconnect, then broadcast.
HandleException(reg, trs, t, n) ==
    LET reg2 == disconnect(reg, t.client_id)
    IN  [reg |-> reg2,
         task |-> broadcast_user_list(reg2, trs, At(t, "recv"), "disconnect", n)]

\* send_personal_message sending on the first registered websocket.
send_personal_message_First(reg, trs, recipient_id) ==
    IF Contains(reg, recipient_id)
    THEN LET ws == reg[CHOOSE i \in Live(reg) : \A j \in Live(reg) : i <= j].ws
         IN  IF trs[ws] = "closed"
             THEN [res |-> "raised", ws |-> 0]
             ELSE [res |-> "sent", ws |-> ws]
    ELSE [res |-> "missing", ws |-> 0]

\* send_personal_message without the membership test: d[key] raises KeyError.
send_personal_message_KeyError(reg, trs, recipient_id) ==
    IF Contains(reg, recipient_id) /\ trs[Lookup(reg, recipient_id)] # "closed"
    THEN [res |-> "sent", ws |-> Lookup(reg, recipient_id)]
    ELSE [res |-> "raised", ws |-> 0]

\* ConnectionManager.send_personal_message, up to its suspension: "sent" the
\* send_json is pending on ws, "raised" it raised at the call, "missing" the
\* recipient is not registered.
send_personal_message(reg, trs, recipient_id) ==
    IF Contains(reg, recipient_id)
    THEN IF trs[Lookup(reg, recipient_id)] = "closed"
         THEN [res |-> "raised", ws |-> 0]
         ELSE [res |-> "sent", ws |-> Lookup(reg, recipient_id)]
    ELSE [res |-> "missing", ws |-> 0]

\* if target_id: (None and the empty string are falsy)
Truthy(target_id) == target_id # Absent /\ target_id # ""

\* HandleMessage with the send started but not awaited: the loop goes back
\* to receive_text while the message is still to be written.
HandleMessage_NoAwait(reg, trs, t, m, n) ==
    IF m.kind # "object"
    THEN HandleException(reg, trs, t, n)
    ELSE IF ~Truthy(m.target)
    THEN [reg |-> reg, task |-> t]
    ELSE LET s == send_personal_message(reg, trs, m.target)
         IN  IF s.res = "sent"
             THEN [reg |-> reg,
                   task |-> [t EXCEPT !.cur = s.ws,
                                      !.message = Stamp(m, t.client_id)]]
             ELSE IF s.res = "raised"
             THEN HandleException(reg, trs, t, n)
             ELSE [reg |-> reg, task |-> t]

\* HandleMessage reading the target with message["target"]: a KeyError when
\* the field is missing.
HandleMessage_KeyError(reg, trs, t, m, n) ==
    IF m.kind # "object" \/ m.target = Absent
    THEN HandleException(reg, trs, t, n)
    ELSE IF ~Truthy(m.target)
    THEN [reg |-> reg, task |-> t]
    ELSE LET s == send_personal_message(reg, trs, m.target)
         IN  IF s.res = "sent"
             THEN [reg |-> reg,
                   task |-> [t EXCEPT !.pc = "send", !.cur = s.ws,
                                      !.message = Stamp(m, t.client_id)]]
             ELSE IF s.res = "raised"
             THEN HandleException(reg, trs, t, n)
             ELSE [reg |-> reg, task |-> t]

\* The body of the while loop for one received text m.
HandleMessage(reg, trs, t, m, n) ==
    IF m.kind # "object"
    THEN HandleException(reg, trs, t, n)
    ELSE IF ~Truthy(m.target)
    THEN [reg |-> reg, task |-> t]
    ELSE LET s == send_personal_message(reg, trs, m.target)
         IN  IF s.res = "sent"
             THEN [reg |-> reg,
                   task |-> [t EXCEPT !.pc = "send", !.cur = s.ws,
                                      !.message = Stamp(m, t.client_id)]]
             ELSE IF s.res = "raised"
             THEN HandleException(reg, trs, t, n)
             ELSE [reg |-> reg, task |-> t]

-----------------------------------------------------------------------------
(* The event loop *)

Init ==
    /\ active_connections = <<>>
    /\ task = [h \in Sessions |-> IdleTask]
    /\ tr = [h \in Sessions |-> "open"]
    /\ waitq = [h \in Sessions |-> <<>>]
    /\ out = [h \in Sessions |-> <<>>]
    /\ nmsgs = 0
    /\ received = NoText
    /\ bseq = 0
    /\ lastop = [id \in Ids |-> "none"]

Without(q, h) == LET Keep(x) == x # h IN SelectSeq(q, Keep)

\* Task h has run to its next suspension (or its end) with registry reg and
\* locals t.  The server closes the connection of an endpoint that has
\* returned or raised.
Commit(h, reg, t) ==
    /\ active_connections' = reg
    /\ task' = [task EXCEPT ![h] = t]
    /\ tr' = IF t.pc \in Terminal THEN [tr EXCEPT ![h] = "closed"] ELSE tr
    /\ waitq' = [w \in Sessions |->
                    IF t.pc \in {"bcast", "send"} /\ t.cur = w
                    THEN Append(Without(waitq[w], h), h)
                    ELSE Without(waitq[w], h)]
    /\ bseq' = IF Len(t.log) > Len(task[h].log) THEN bseq + 1 ELSE bseq
    /\ lastop' = IF task[h].pc = "init"
                 THEN [lastop EXCEPT ![t.client_id] = "register"]
                 ELSE IF Len(t.log) > Len(task[h].log)
                 THEN [lastop EXCEPT ![t.client_id] = "unregister"]
                 ELSE lastop

\* Task h is the first of those suspended in a send on its websocket cur.
Resumable(h) ==
    /\ task[h].pc \in {"bcast", "send"}
    /\ waitq[task[h].cur] # <<>>
    /\ Head(waitq[task[h].cur]) = h

\* await manager.connect(websocket, client_id): the handshake of websocket h
\* completes for client_id.  The websockets are numbered in the order of
\* their handshakes and the client IDs named in the order of their first
\* use, the first one "A": the IDs are opaque, so every other run is one of
\* these with the IDs renamed.
Connect(h, client_id) ==
    /\ task[h].pc = "init"
    /\ \A g \in Sessions : g < h => task[g].pc # "init"
    /\ h = 1 => client_id = FirstId
    /\ LET c == connect(active_connections, tr, task[h], h, client_id, bseq + 1)
       IN  Commit(h, c.reg, c.task)
    /\ received' = NoText
    /\ UNCHANGED <<out, nmsgs>>

\* BroadcastSent with the list read from the registry again for each send.
BroadcastSent_Fresh(h) ==
    /\ Resumable(h)
    /\ task[h].pc = "bcast"
    /\ tr[task[h].cur] = "open"
    /\ out' = [out EXCEPT ![task[h].cur] =
                  Append(@, [via |-> h,
                             msg |-> UsersMessage(Keys(active_connections), task[h].seq)])]
    /\ Commit(h, active_connections, ForEachSend(active_connections, tr, task[h]))
    /\ received' = NoText
    /\ UNCHANGED nmsgs

\* The transport of cur accepts the membership message; the loop goes on.
BroadcastSent(h) ==
    /\ Resumable(h)
    /\ task[h].pc = "bcast"
    /\ tr[task[h].cur] = "open"
    /\ out' = [out EXCEPT ![task[h].cur] =
                  Append(@, [via |-> h,
                             msg |-> UsersMessage(task[h].user_list, task[h].seq)])]
    /\ Commit(h, active_connections, ForEachSend(active_connections, tr, task[h]))
    /\ received' = NoText
    /\ UNCHANGED nmsgs

\* The transport of cur closed under the pending send: send_json raises.
BroadcastRaised(h) ==
    /\ Resumable(h)
    /\ task[h].pc = "bcast"
    /\ tr[task[h].cur] = "closed"
    /\ Commit(h, active_connections, At(task[h], "crashed"))
    /\ received' = NoText
    /\ UNCHANGED <<out, nmsgs>>

\* data = await websocket.receive_text() returns m, one of at most limit texts.
ReceiveUpTo(h, m, limit) ==
    /\ task[h].pc = "recv"
    /\ tr[h] # "closed"
    /\ nmsgs < limit
    /\ nmsgs' = nmsgs + 1
    /\ received' = [ws |-> h, text |-> m]
    /\ LET r == HandleMessage(active_connections, tr, task[h], m, bseq + 1)
       IN  Commit(h, r.reg, r.task)
    /\ UNCHANGED out

\* data = await websocket.receive_text() returns m.
Receive(h, m) == ReceiveUpTo(h, m, MaxMsgs)

\* receive_text() raises WebSocketDisconnect: the peer has gone.
ReceiveDisconnect(h) ==
    /\ task[h].pc = "recv"
    /\ tr[h] = "closed"
    /\ LET r == HandleException(active_connections, tr, task[h], bseq + 1)
       IN  Commit(h, r.reg, r.task)
    /\ received' = NoText
    /\ UNCHANGED <<out, nmsgs>>

\* The transport of cur accepts the routed message.
PersonalSent(h) ==
    /\ Resumable(h)
    /\ task[h].pc = "send"
    /\ tr[task[h].cur] = "open"
    /\ out' = [out EXCEPT ![task[h].cur] = Append(@, [via |-> h, msg |-> task[h].message])]
    /\ Commit(h, active_connections, At(task[h], "recv"))
    /\ received' = NoText
    /\ UNCHANGED nmsgs

\* The transport of cur closed under the pending send: send_json raises
\* inside the try.
PersonalRaised(h) ==
    /\ Resumable(h)
    /\ task[h].pc = "send"
    /\ tr[task[h].cur] = "closed"
    /\ LET r == HandleException(active_connections, tr, task[h], bseq + 1)
       IN  Commit(h, r.reg, r.task)
    /\ received' = NoText
    /\ UNCHANGED <<out, nmsgs>>

\* The peer of websocket h closes the connection, or the connection breaks.
PeerClose(h) ==
    /\ task[h].pc \notin {"init"} \cup Terminal
    /\ tr[h] # "closed"
    /\ tr' = [tr EXCEPT ![h] = "closed"]
    /\ received' = NoText
    /\ UNCHANGED <<active_connections, task, waitq, out, nmsgs, bseq, lastop>>

\* The peer of websocket h stops reading: its transport accepts no more writes.
PeerStall(h) ==
    /\ task[h].pc \notin {"init"} \cup Terminal
    /\ tr[h] = "open"
    /\ tr' = [tr EXCEPT ![h] = "stalled"]
    /\ received' = NoText
    /\ UNCHANGED <<active_connections, task, waitq, out, nmsgs, bseq, lastop>>

\* One step of task h.
Step(h) ==
    \/ \E client_id \in Ids : Connect(h, client_id)
    \/ BroadcastSent(h)
    \/ BroadcastRaised(h)
    \/ \E m \in Inbound(nmsgs + 1) : Receive(h, m)
    \/ ReceiveDisconnect(h)
    \/ PersonalSent(h)
    \/ PersonalRaised(h)

\* MaxConn connections.
Next ==
    \/ \E h \in 1 .. MaxConn : Step(h)
    \/ \E h \in 1 .. MaxConn : PeerClose(h)

Spec == Init /\ [][Next]_vars

\* NSess connections.
NextWide ==
    \/ \E h \in Sessions : Step(h)
    \/ \E h \in Sessions : PeerClose(h)

SpecWide == Init /\ [][NextWide]_vars

\* MaxConn connections whose peers may stop reading, under an event loop
\* that eventually runs every task that can run.
NextStall ==
    \/ \E h \in 1 .. MaxConn : Step(h)
    \/ \E h \in 1 .. MaxConn : PeerClose(h)
    \/ \E h \in 1 .. MaxConn : PeerStall(h)

FairSpec == Init /\ [][NextStall]_vars /\ \A h \in 1 .. MaxConn : WF_vars(Step(h))

\* The texts that are routed: JSON objects addressed to a client ID.
Addressed(n) == {m \in Inbound(n) : m.kind = "object" /\ m.target \in Ids}

\* MaxConn connections of which the first one receives one text more than
\* Spec's connections do, every text an addressed one.
NextOrder ==
    \/ \E h \in 1 .. MaxConn : \E client_id \in Ids : Connect(h, client_id)
    \/ \E h \in 1 .. MaxConn : BroadcastSent(h)
    \/ \E h \in 1 .. MaxConn : BroadcastRaised(h)
    \/ \E m \in Addressed(nmsgs + 1) : ReceiveUpTo(1, m, MaxMsgs + 1)
    \/ \E h \in 1 .. MaxConn : ReceiveDisconnect(h)
    \/ \E h \in 1 .. MaxConn : PersonalSent(h)
    \/ \E h \in 1 .. MaxConn : PersonalRaised(h)
    \/ \E h \in 1 .. MaxConn : PeerClose(h)

SpecOrder == Init /\ [][NextOrder]_vars

-----------------------------------------------------------------------------
(* Properties *)

\* Task h leaves the while loop in this step.
LeavesLoop(h) ==
    /\ task[h].pc \in {"recv", "send"}
    /\ task'[h].pc \notin {"recv", "send"}

InData(id, data) == \E i \in 1 .. Len(data) : data[i] = id

\* The message of the send task h is suspended in.
Pending(h) ==
    [via |-> h,
     msg |-> IF task[h].pc = "send"
             THEN task[h].message
             ELSE UsersMessage(task[h].user_list, task[h].seq)]

\* The text handled in this step is a JSON object with a target.
Routed == received'.text.kind = "object" /\ Truthy(received'.text.target)

\* C1: when a session leaves its receive loop (WebSocketDisconnect or any
\* other exception inside it), its client ID is out of the registry and
\* exactly one membership message is built, in the same step, from the
\* registry as it is after the removal: its data is the key list of that
\* registry and does not hold the ID.  A task builds membership messages at
\* no other time but its connect.
C1_RemovedBeforeBroadcast ==
    [][\A h \in Sessions :
        /\ LeavesLoop(h) =>
            /\ ~Contains(active_connections', task[h].client_id)
            /\ bseq' = bseq + 1
            /\ Len(task'[h].log) = Len(task[h].log) + 1
            /\ LET b == task'[h].log[Len(task'[h].log)]
               IN  /\ b.kind = "disconnect"
                   /\ b.seq = bseq'
                   /\ b.data = Keys(active_connections')
                   /\ ~InData(task[h].client_id, b.data)
                   /\ task'[h].pc = "bcast" => task'[h].user_list = b.data
        /\ task'[h].log # task[h].log => task[h].pc = "init" \/ LeavesLoop(h)
      ]_vars

\* C1 witness: a disconnect broadcast to the clients that remain is under way.
C1_Witness ==
    \E h \in Sessions :
        /\ task[h].pc = "bcast"
        /\ task[h].kind = "disconnect"
        /\ task[h].user_list # <<>>

Deliveries(n) ==
    {<<w, i>> \in Sessions \X (1 .. 2 * NSess + MaxMsgs + 1) :
        /\ i <= Len(out[w])
        /\ out[w][i].msg.type = "msg"
        /\ out[w][i].msg.payload = n}

C3_FromIsSender ==
    /\ \A w \in Sessions : \A i \in 1 .. Len(out[w]) :
          out[w][i].msg.type = "msg" =>
              out[w][i].msg.from = task[out[w][i].via].client_id
    /\ \A h \in Sessions :
          task[h].pc = "send" => task[h].message.from = task[h].client_id

\* C3 witness: a text whose from names another client has been stamped and
\* is on its way to the target.
C3_Witness ==
    /\ received.ws # 0
    /\ received.text.from \in Ids \ {task[received.ws].client_id}
    /\ task[received.ws].pc = "send"
    /\ task[received.ws].message.from = task[received.ws].client_id

\* C4: a text that fails to decode is dropped: the session that received it
\* goes on receiving, the registry is unchanged and no membership message
\* is built.
C4_MalformedDropped ==
    [][received'.text.kind = "malformed" =>
        /\ task'[received'.ws].pc = "recv"
        /\ active_connections' = active_connections
        /\ bseq' = bseq
      ]_vars

\* The send of task h to another client raises in this step: at the call of
\* send_personal_message, or under the pending send.
ForwardRaises(h) ==
    \/ /\ received'.ws = h
       /\ Routed
       /\ received'.text.target # task[h].client_id
       /\ Contains(active_connections, received'.text.target)
       /\ tr[Lookup(active_connections, received'.text.target)] = "closed"
    \/ /\ task[h].pc = "send"
       /\ task[h].message.target # task[h].client_id
       /\ tr[task[h].cur] = "closed"
       /\ task'[h] # task[h]

\* C5: a send to a registered target that raises is swallowed: the sender
\* goes on receiving and stays registered.
C5_ForwardFailureSwallowed ==
    [][\A h \in Sessions :
        ForwardRaises(h) =>
            /\ task'[h].pc = "recv"
            /\ active_connections' = active_connections
      ]_vars

\* C6: no websocket in the registry belongs to a session that has terminated.
C6_NoTerminatedRegistered ==
    \A i \in Live(active_connections) :
        task[active_connections[i].ws].pc \notin Terminal

\* C7: when the pending send of a membership broadcast raises and the
\* registry holds recipients the loop has not reached, the broadcast is not
\* aborted: its task goes on to them.
C7_BroadcastSurvivesFailedSend ==
    [][\A h \in Sessions :
        (/\ task[h].pc = "bcast"
         /\ Resumable(h)
         /\ tr[task[h].cur] = "closed"
         /\ task'[h] # task[h]
         /\ IterNext(active_connections, task[h].it).res = "value") =>
            task'[h].pc # "crashed"
      ]_vars

\* Websocket w has been sent the membership message of snapshot n.
GotUsers(w, n) ==
    \E i \in 1 .. Len(out[w]) :
        out[w][i].msg.type = "users" /\ out[w][i].msg.seq = n

\* The recipients the loop of task h has not reached.
Unreached(h) ==
    {active_connections[i].ws : i \in {j \in Live(active_connections) : j > task[h].it.pos}}

\* C8: a broadcast whose pending send is on a transport that never accepts
\* the write still reaches every other recipient: one that is registered,
\* open and not yet reached eventually gets the message, unless it closes or
\* is unregistered, or the stalled transport closes.
C8_StalledRecipientDoesNotBlock ==
    \A h \in 1 .. MaxConn : \A c \in 1 .. MaxConn : \A w \in 1 .. MaxConn :
      \A n \in 1 .. 2 * MaxConn :
        (/\ task[h].pc = "bcast"
         /\ task[h].cur = c
         /\ task[h].seq = n
         /\ tr[c] = "stalled"
         /\ w \in Unreached(h)
         /\ tr[w] = "open")
        ~> (\/ GotUsers(w, n)
            \/ tr[w] # "open"
            \/ w \notin Values(active_connections)
            \/ tr[c] = "closed")

\* C9: every connection is sent membership messages in the order in which
\* their snapshots were computed: of two with different lists, the one sent
\* first was computed first.
C9_SnapshotOrder ==
    \A w \in Sessions : \A i \in 1 .. Len(out[w]) : \A j \in 1 .. Len(out[w]) :
        (/\ i < j
         /\ out[w][i].msg.type = "users"
         /\ out[w][j].msg.type = "users"
         /\ out[w][i].msg.data # out[w][j].msg.data) =>
            out[w][i].msg.seq < out[w][j].msg.seq

\* C10: handling a message whose target is not registered delivers nothing,
\* starts no send, leaves the registry as it is, builds no membership
\* message and leaves the sender in its receive loop.
C10_UnknownTargetDropped ==
    [][(Routed /\ ~Contains(active_connections, received'.text.target)) =>
        /\ out' = out
        /\ waitq' = waitq
        /\ active_connections' = active_connections
        /\ bseq' = bseq
        /\ task'[received'.ws] = task[received'.ws]
        /\ task'[received'.ws].pc = "recv"
      ]_vars

\* C10 witness: a registered client's message for an ID that is not
\* registered has been handled, and the client is receiving again.
C10_Witness ==
    /\ received.ws # 0
    /\ received.text.kind = "object"
    /\ Truthy(received.text.target)
    /\ ~Contains(active_connections, received.text.target)
    /\ task[received.ws].pc = "recv"
    /\ Contains(active_connections, task[received.ws].client_id)
    /\ Lookup(active_connections, task[received.ws].client_id) = received.ws

\* C11: a well-formed message (a JSON object) without a target field, or
\* with a falsy one, is delivered to nobody and queued for nobody, leaves
\* the registry as it is, triggers no membership broadcast, and leaves the
\* sender's session in its receive loop, its locals untouched.
C11_NoTargetDropped ==
    [][(received'.text.kind = "object" /\ ~Truthy(received'.text.target)) =>
        /\ out' = out
        /\ waitq' = waitq
        /\ active_connections' = active_connections
        /\ bseq' = bseq
        /\ tr' = tr
        /\ task' = task
        /\ task'[received'.ws].pc = "recv"
      ]_vars

\* C11 witness: a registered client's JSON object with no target field has
\* been handled, and the client is receiving again.
C11_Witness ==
    /\ received.ws # 0
    /\ received.text.kind = "object"
    /\ received.text.target = Absent
    /\ task[received.ws].pc = "recv"
    /\ Contains(active_connections, task[received.ws].client_id)
    /\ Lookup(active_connections, task[received.ws].client_id) = received.ws

\* C12: every client that has completed the handshake appears in a
\* membership snapshot: the step that completes the handshake registers
\* the client ID for this websocket and builds, in the same step and from
\* the registry that holds the ID, exactly one membership message, whose
\* data is the key list of that registry and so contains the ID; the
\* message stays the first one in the task's log, however many clients
\* connect at the same time.
C12_ConnectedAppearsInSnapshot ==
    /\ [](\A h \in Sessions :
            task[h].pc # "init" =>
                /\ task[h].log # <<>>
                /\ task[h].log[1].kind = "connect"
                /\ InData(task[h].client_id, task[h].log[1].data))
    /\ [][\A h \in Sessions :
            (task[h].pc = "init" /\ task'[h].pc # "init") =>
                /\ Contains(active_connections', task'[h].client_id)
                /\ Lookup(active_connections', task'[h].client_id) = h
                /\ bseq' = bseq + 1
                /\ task'[h].log = <<[kind |-> "connect",
                                     data |-> Keys(active_connections'),
                                     seq |-> bseq']>>
                /\ task'[h].pc = "bcast" => task'[h].user_list = task'[h].log[1].data
         ]_vars

\* C12 witness: two clients are connecting at the same time, the connect
\* broadcast of each under way with the client's own ID in its list.
C12_Witness ==
    \E g, h \in Sessions :
        /\ g # h
        /\ task[g].pc = "bcast" /\ task[g].kind = "connect"
        /\ task[h].pc = "bcast" /\ task[h].kind = "connect"
        /\ task[g].client_id # task[h].client_id
        /\ InData(task[g].client_id, task[g].user_list)
        /\ InData(task[h].client_id, task[h].user_list)

\* The routed messages that connection w has got from the session of h, in
\* the order of their delivery.
RoutedFrom(h, w) ==
    LET FromH(e) == e.via = h /\ e.msg.type = "msg" IN SelectSeq(out[w], FromH)

\* C13: the messages of one sender are delivered to one recipient in the
\* order in which the sender's session received them (the payload of a
\* message is the ordinal of its receipt), and each at most once.  The loop
\* handles one message at a time: a session holds an unsent message only
\* while it is suspended in the send of that message, queued on the
\* recipient's websocket; it receives the next text only from the top of
\* the loop, with no send of its own pending; and the handling of a text
\* for a registered recipient whose transport is not closed suspends the
\* session in that send.
C13_DeliveredInReceiveOrder ==
    /\ [](\A h, w \in Sessions :
            \A i, j \in 1 .. Len(RoutedFrom(h, w)) :
                i < j => RoutedFrom(h, w)[i].msg.payload < RoutedFrom(h, w)[j].msg.payload)
    /\ [](\A h \in Sessions :
            /\ task[h].message # NoMessage <=> task[h].pc = "send"
            /\ task[h].pc = "send" =>
                \E i \in 1 .. Len(waitq[task[h].cur]) : waitq[task[h].cur][i] = h)
    /\ [][\A h \in Sessions :
            received'.ws = h =>
                /\ task[h].pc = "recv"
                /\ task[h].message = NoMessage
                /\ \A w \in Sessions : \A i \in 1 .. Len(waitq[w]) : waitq[w][i] # h
                /\ (/\ Routed
                    /\ Contains(active_connections, received'.text.target)
                    /\ tr[Lookup(active_connections, received'.text.target)] # "closed") =>
                        /\ task'[h].pc = "send"
                        /\ task'[h].message.payload = received'.text.payload
         ]_vars

\* C13 witness: one connection has got two messages of one sender, the
\* first text the server received and then the second.
C13_Witness ==
    \E h, w \in Sessions :
        /\ Len(RoutedFrom(h, w)) = 2
        /\ RoutedFrom(h, w)[1].msg.payload = 1
        /\ RoutedFrom(h, w)[2].msg.payload = 2

\* The IDs whose last call was connect (register).
LastRegistered == {id \in Ids : lastop[id] = "register"}

\* The set of the members of a list.
Members(data) == {data[i] : i \in 1 .. Len(data)}

\* C14: after any sequence of connect and disconnect calls, the snapshot
\* (the key list of the registry) holds exactly the IDs whose most recent
\* call was a connect, and every membership message is built from that
\* list.
C14_SnapshotIsLastRegistered ==
    /\ [](Members(Keys(active_connections)) = LastRegistered)
    /\ [][\A h \in Sessions :
            task'[h].log # task[h].log =>
                Members(task'[h].log[Len(task'[h].log)].data) = LastRegistered'
         ]_vars

\* C14 witness: register(A), register(B), unregister(A) have been called,
\* and the snapshot built on the last call is the list of B alone.
C14_Witness ==
    /\ lastop = [id \in Ids |-> IF id = FirstId THEN "unregister" ELSE "register"]
    /\ Keys(active_connections) = <<"B">>
    /\ \E h \in Sessions :
        /\ task[h].client_id = FirstId
        /\ Len(task[h].log) = 2
        /\ task[h].log[2].data = <<"B">>

\* The websockets that have registered id, by a handshake that is done.
RegisteredBy(id) == {h \in Sessions : task[h].pc # "init" /\ task[h].client_id = id}

\* C15: registering an ID again replaces its entry, the last writer wins:
\* in every state the registry holds at most one entry per ID and the
\* snapshot names no ID twice; the entry of an ID holds the websocket that
\* registered the ID most recently (websockets are numbered in the order
\* of their handshakes); and a connect leaves the number of entries as it
\* is when the ID is registered already.
C15_LastWriterWins ==
    /\ [](\A i, j \in 1 .. Len(active_connections) :
            (/\ i # j
             /\ IsLive(active_connections[i])
             /\ IsLive(active_connections[j])) =>
                active_connections[i].id # active_connections[j].id)
    /\ [](\A i, j \in 1 .. Len(Keys(active_connections)) :
            i # j => Keys(active_connections)[i] # Keys(active_connections)[j])
    /\ [](\A id \in Ids :
            Contains(active_connections, id) =>
                /\ RegisteredBy(id) # {}
                /\ \A h \in RegisteredBy(id) : h <= Lookup(active_connections, id)
                /\ Lookup(active_connections, id) \in RegisteredBy(id))
    /\ [][\A h \in Sessions :
            (task[h].pc = "init" /\ task'[h].pc # "init") =>
                /\ Lookup(active_connections', task'[h].client_id) = h
                /\ Contains(active_connections, task'[h].client_id) =>
                    /\ Live(active_connections') = Live(active_connections)
                    /\ Keys(active_connections') = Keys(active_connections)
         ]_vars

\* C15 witness: a second connection has registered an ID that was
\* registered, and the one entry of the ID holds the second websocket.
C15_Witness ==
    \E g, h \in Sessions :
        /\ g < h
        /\ task[g].pc \notin {"init"} \cup Terminal
        /\ task[h].pc \notin {"init"} \cup Terminal
        /\ task[g].client_id = task[h].client_id
        /\ Contains(active_connections, task[h].client_id)
        /\ Lookup(active_connections, task[h].client_id) = h
        /\ Used(active_connections) = 1

\* C16: disconnect is idempotent.  On every registry the server reaches and
\* for every ID, registered or not, a second disconnect(id) returns the
\* registry as the first one left it, and a disconnect of an ID that is not
\* registered returns the registry as it was; and when a session leaves
\* its loop with its ID not (or no longer) registered, the call raises
\* nothing: the registry stays as it is and the except clause goes on to
\* its broadcast.
C16_DisconnectIdempotent ==
    /\ [](\A id \in Ids \cup {UnknownId} :
            /\ ~Contains(disconnect(active_connections, id), id)
            /\ disconnect(disconnect(active_connections, id), id)
                   = disconnect(active_connections, id)
            /\ ~Contains(active_connections, id) =>
                   disconnect(active_connections, id) = active_connections)
    /\ [][\A h \in Sessions :
            (LeavesLoop(h) /\ ~Contains(active_connections, task[h].client_id)) =>
                /\ active_connections' = active_connections
                /\ Len(task'[h].log) = Len(task[h].log) + 1
         ]_vars

\* C16 witness: two sessions of one client ID have both left their loops,
\* so disconnect has been called twice for the ID with no connect between.
C16_Witness ==
    \E g, h \in Sessions :
        /\ g # h
        /\ task[g].client_id = task[h].client_id
        /\ Len(task[g].log) = 2
        /\ Len(task[h].log) = 2
        /\ task[g].log[2].seq + 1 = task[h].log[2].seq

\* C17: an entry (id -> websocket) leaves the registry only in a step in
\* which the session of that websocket leaves its loop (it disconnects), or
\* in which a later connection registers the same ID in its place.  So the
\* entry of a later, running session of an ID stays when an earlier session
\* of the same ID terminates.
C17_EntryOutlivesEarlierSession ==
    [][\A i \in Live(active_connections) :
        (\A j \in Live(active_connections') :
            active_connections'[j] # active_connections[i]) =>
            \/ LeavesLoop(active_connections[i].ws)
            \/ /\ Contains(active_connections', active_connections[i].id)
               /\ Lookup(active_connections', active_connections[i].id)
                      > active_connections[i].ws
               /\ task[Lookup(active_connections', active_connections[i].id)].pc = "init"
      ]_vars

\* The membership messages that connection w has got.
UsersGot(w) == {i \in 1 .. Len(out[w]) : out[w][i].msg.type = "users"}

\* C18: the data of a membership broadcast is the complete key list of the
\* registry at one instant, the start of the broadcast: the message is
\* built in one step from the registry of that step; the broadcast keeps
\* that list while it is under way, whatever happens to the registry; every
\* membership message a connection gets carries the list its broadcast was
\* started with; and all recipients of one broadcast get the same list.
C18_OneSnapshotPerBroadcast ==
    /\ [][\A h \in Sessions :
            task'[h].log # task[h].log =>
                /\ Len(task'[h].log) = Len(task[h].log) + 1
                /\ SubSeq(task'[h].log, 1, Len(task[h].log)) = task[h].log
                /\ task'[h].log[Len(task'[h].log)].data = Keys(active_connections')
                /\ task'[h].log[Len(task'[h].log)].seq = bseq'
                /\ bseq' = bseq + 1
         ]_vars
    /\ [](\A h \in Sessions :
            task[h].pc = "bcast" =>
                /\ task[h].user_list = task[h].log[Len(task[h].log)].data
                /\ task[h].seq = task[h].log[Len(task[h].log)].seq)
    /\ [](\A w \in Sessions : \A i \in UsersGot(w) :
            \E k \in 1 .. Len(task[out[w][i].via].log) :
                /\ task[out[w][i].via].log[k].seq = out[w][i].msg.seq
                /\ task[out[w][i].via].log[k].data = out[w][i].msg.data)
    /\ [](\A v, w \in Sessions : \A i \in UsersGot(v) : \A j \in UsersGot(w) :
            out[v][i].msg.seq = out[w][j].msg.seq =>
                /\ out[v][i].msg.data = out[w][j].msg.data
                /\ out[v][i].via = out[w][j].via)

\* C18 witness: two connections have got the message of one broadcast, with
\* the same list, and the registry has changed since.
C18_Witness ==
    \E v, w \in Sessions : \E i \in UsersGot(v) : \E j \in UsersGot(w) :
        /\ v # w
        /\ out[v][i].msg.seq = out[w][j].msg.seq
        /\ out[v][i].msg.data = out[w][j].msg.data
        /\ Len(out[v][i].msg.data) = 2
        /\ Keys(active_connections) # out[v][i].msg.data

\* C19: a broadcast that is suspended on a send while another session
\* registers or unregisters an ID goes on when the send is accepted: the
\* change of the registry does not make it fail.  A broadcast resumed after
\* an accepted send fails only over its next recipient, when the transport
\* of that one is closed, never in the loop itself.
C19_BroadcastSurvivesMutation ==
    [][\A h \in Sessions :
        (/\ task[h].pc = "bcast"
         /\ tr[task[h].cur] = "open"
         /\ task'[h].pc = "crashed") =>
            /\ IterNext(active_connections, task[h].it).res = "value"
            /\ tr[IterNext(active_connections, task[h].it).ws] = "closed"
      ]_vars

\* The websocket a step selects as the recipient of a send, 0 if none: r is
\* the result of the loop's next().
Selected(r) == IF r.res = "value" THEN r.ws ELSE 0

\* The websocket is that of a session that has ended: the endpoint has
\* returned or raised, and its connection is closed for good.
Ended(w) == w # 0 /\ task[w].pc \in Terminal

\* C20, for the connections whose session has ended: no send selects a
\* registered websocket whose connection is closed for good.  Neither the
\* lookup of a directed send, nor the first next() of a broadcast started
\* at a connect or in an except clause, nor the next() of a broadcast
\* resumed after an accepted send yields such a websocket.
C20_RegisteredHandlesUsable ==
    [][\A h \in Sessions :
        /\ (/\ received'.ws = h
            /\ Routed
            /\ Contains(active_connections, received'.text.target)) =>
                ~Ended(Lookup(active_connections, received'.text.target))
        /\ task'[h].log # task[h].log =>
                ~Ended(Selected(IterNext(active_connections',
                                         NewIter(active_connections'))))
        /\ (/\ task[h].pc = "bcast"
            /\ tr[task[h].cur] = "open"
            /\ task'[h] # task[h]) =>
                ~Ended(Selected(IterNext(active_connections, task[h].it)))
      ]_vars

====
